---------------------------- MODULE Spec2Model ----------------------------
(***************************************************************************)
(* Forge Stake Pool (forge-stake/src/lib.rs, types-support/src/staking.rs) *)
(* as a state machine: the position store, the sparse weight ledger        *)
(* (/staking_weight/, /staking_expire/), the incremental profit calculator *)
(* calc_profit, the reference calculator calc_profit_1 of the test suite,  *)
(* and the stake / unstake / claim handlers.                               *)
(*                                                                         *)
(* Numbers.  TLC integers are 32 bits wide, so the quantities the code     *)
(* keeps in rust_decimal::Decimal (96-bit mantissa, up to 28 fractional    *)
(* digits) are kept in fixed point:                                        *)
(*   - a weight (amount * multiplier, multipliers "1.0" .. "2.2") is an    *)
(*     integer number of tenths; weights are only added and subtracted,    *)
(*     which is exact in the code and here;                                *)
(*   - a profit (the result of a Decimal division or multiplication) is an *)
(*     integer number of 1/DEC_UNIT; a division or multiplication rounds   *)
(*     its result half-to-even to that precision, as Decimal rounds to the *)
(*     precision it can hold.                                              *)
(* The constants that set the length of loops are scaled down so that      *)
(* expiry and full release happen inside the explored heights:             *)
(* BLOCKS_PER_DAY (144 in the code), PROFIT_RELEASE_HEIGHT (144 * 180) and *)
(* MINING_ONE_BLOCK_VOLUME (1003086419753); the reference calculator's own *)
(* constants are scaled the same way and stay different from the           *)
(* contract's, as they are in the code.                                    *)
(***************************************************************************)
EXTENDS Integers, Sequences, FiniteSets, TLC

VARIABLES
    height,         \* self.height(): the block the next invocation runs in
    sequence,       \* self.sequence(): tx number of the next created alkane
    orbital_count,  \* /orbital_count
    stakings,       \* /staking/<index>                -> Staking
    id2index,       \* /staking/id2index/<alkane id>   -> index
    invites,        \* /staking/share/<index>          -> Vec<u128>
    weights,        \* /staking_weight/<height>        -> Decimal (tenths)
    expires,        \* /staking_expire/<height>        -> Decimal (tenths)
    response,       \* outcome of the last invocation of the current block
    walk,           \* get_staking_weight in progress: its locals and its position
    transferred     \* reward coins sent out by claims so far, per position index

vars == <<height, sequence, orbital_count, stakings, id2index, invites,
          weights, expires, response, walk, transferred>>

store == <<orbital_count, stakings, id2index, invites, weights, expires>>

-----------------------------------------------------------------------------
(* Program constants *)

MINING_ONE_BLOCK_VOLUME == 1003
MINING_FIRST_HEIGHT == 450
BLOCKS_PER_DAY == 2
MINING_LAST_HEIGHT == MINING_FIRST_HEIGHT + BLOCKS_PER_DAY * 360 - 1
MIN_STAKE_VALUE == 1000
PROFIT_RELEASE_HEIGHT == 3
DEC_UNIT == 1000

(* Bounds of the exploration *)

MaxPositions == 2
MaxTicks == 3
MaxInvited == 3

-----------------------------------------------------------------------------
(* Key-value storage: a pointer's get() on an absent key is empty *)

EmptyMap == [k \in {} |-> 0]

Put(f, k, v) == [x \in (DOMAIN f) \cup {k} |-> IF x = k THEN v ELSE f[x]]

Has(f, k) == k \in DOMAIN f

(* get_value::<u128>() of an absent key is 0 *)
GetValue(f, k) == IF Has(f, k) THEN f[k] ELSE 0

-----------------------------------------------------------------------------
(* Decimal arithmetic *)

Abs(x) == IF x < 0 THEN -x ELSE x

Sgn(x) == IF x < 0 THEN -1 ELSE 1

\* base + n / d for n >= 0, d > 0, the quotient rounded half to even
RoundDiv(base, n, d) ==
    LET q == base + (n \div d)
        r == n % d
    IN  IF 2 * r > d \/ (2 * r = d /\ q % 2 = 1) THEN q + 1 ELSE q

\* Decimal a / b of two values of the same scale, b # 0, in 1/DEC_UNIT
DecDiv(a, b) ==
    LET n == Abs(a)
        d == Abs(b)
    IN  Sgn(a) * Sgn(b) * RoundDiv((n \div d) * DEC_UNIT, (n % d) * DEC_UNIT, d)

\* Decimal a * b of two values in 1/DEC_UNIT, in 1/DEC_UNIT
DecMul(a, b) ==
    LET n == Abs(a)
        m == Abs(b)
    IN  Sgn(a) * Sgn(b) * RoundDiv((n \div DEC_UNIT) * m, (n % DEC_UNIT) * m, DEC_UNIT)

\* Decimal::floor().try_into::<u128>().unwrap_or(0)
FloorToU128(x) == IF x < 0 THEN 0 ELSE x \div DEC_UNIT

-----------------------------------------------------------------------------
(* types-support: Staking *)

\* AlkaneId { block, tx }
AlkaneId(block, tx) == <<block, tx>>

\* Staking::default(): what get_staking returns for an absent record
DefaultStaking ==
    [staking_value |-> 0, period |-> 0, invite_index |-> 0,
     staking_height |-> 0, unstaking_height |-> 0,
     alkanes_id |-> AlkaneId(0, 0), withdraw_coin_value |-> 0]

get_expire_height(s) == s.staking_height + s.period * BLOCKS_PER_DAY

Min(a, b) == IF a < b THEN a ELSE b

Max(a, b) == IF a > b THEN a ELSE b

\* an end of mining that does not look at the query height
get_mining_end_height_unbounded(s, h) ==
    IF s.unstaking_height > 0
    THEN Min(s.unstaking_height, get_expire_height(s))
    ELSE get_expire_height(s)

\* an end of mining that does not look at the unstake height
get_mining_end_height_expiry(s, h) == Min(get_expire_height(s), h)

get_mining_end_height(s, h) ==
    IF s.unstaking_height > 0
    THEN Min(Min(s.unstaking_height, get_expire_height(s)), h)
    ELSE Min(get_expire_height(s), h)

\* an end of release that does not look at the unstake height
get_release_end_height_query(s, h) == h

get_release_end_height(s, h) ==
    IF s.unstaking_height > 0 THEN Min(s.unstaking_height, h) ELSE h

-----------------------------------------------------------------------------
(* forge-stake: weight table, position store, weight ledger *)

\* the multiplier in tenths: "1.0", "1.5", "1.8", "2.2"
period_to_weight_multiplier(period) ==
    CASE period = 30  -> 10
      [] period = 90  -> 15
      [] period = 180 -> 18
      [] period = 360 -> 22
      [] OTHER        -> 10

\* Decimal::from(staking_value) * period_to_weight_multiplier(period), in tenths
staking_weight_of(s) == s.staking_value * period_to_weight_multiplier(s.period)

get_orbital_count == orbital_count

\* the largest value of the counter's integer type (u128 in the code): the
\* model gives the counter just the width that the explored stakes can fill
U128_MAX == Max(MaxPositions, MaxInvited)

\* checked_add(1).unwrap_or(1)
get_next_staking_index ==
    IF get_orbital_count + 1 > U128_MAX THEN 1 ELSE get_orbital_count + 1

\* a lookup that resolves every identifier to the first position
get_staking_index_by_id_first(alkane_id) == 1

get_staking_index_by_id(alkane_id) == GetValue(id2index, alkane_id)

get_staking(index) ==
    IF Has(stakings, index) THEN stakings[index] ELSE DefaultStaking

get_invited_indices(index) ==
    IF Has(invites, index) THEN invites[index] ELSE <<>>

get_staking_expire(h) == GetValue(expires, h)

RECURSIVE WeightWalk(_, _)
\* the loop of get_staking_weight: one height down at a time, to the first snapshot
WeightWalk(current_height, weight) ==
    IF current_height > MINING_FIRST_HEIGHT
    THEN LET c == current_height - 1
         IN  IF Has(weights, c)
             THEN weight + weights[c]
             ELSE WeightWalk(c, weight - get_staking_expire(c))
    ELSE weight

\* a lookup that forgets the backward walk
get_staking_weight_no_walk(h) ==
    IF Has(weights, h) THEN weights[h] ELSE 0 - get_staking_expire(h)

get_staking_weight(h) ==
    IF Has(weights, h)
    THEN weights[h]
    ELSE WeightWalk(h, 0 - get_staking_expire(h))

-----------------------------------------------------------------------------
(* forge-stake: calc_profit *)

\* Decimal::from(1) / Decimal::from(PROFIT_RELEASE_HEIGHT)
release_rate == DecDiv(1, PROFIT_RELEASE_HEIGHT)

\* a release that goes on past the release window
released_amount_uncapped(block_profit, blocks_until_release) ==
    DecMul(block_profit, release_rate) * blocks_until_release

\* the part of a block's profit that is released blocks_until_release blocks
\* after the block
released_amount(block_profit, blocks_until_release) ==
    IF blocks_until_release >= PROFIT_RELEASE_HEIGHT
    THEN block_profit
    ELSE DecMul(block_profit, release_rate) * blocks_until_release

RECURSIVE ProfitLoop(_, _, _, _, _, _)
\* the while loop of calc_profit; the Decimal division panics on a zero weight
ProfitLoop(start_height, end_height, profit_factor, release_end, total_profit, total_released) ==
    IF start_height < end_height
    THEN LET w == get_staking_weight(start_height)
         IN  IF w = 0
             THEN [err |-> "DivisionByZero", total |-> 0, released |-> 0]
             ELSE LET block_profit == DecDiv(profit_factor, w)
                      blocks_until_release == release_end - start_height - 1
                  IN  IF blocks_until_release < 0
                      THEN [err |-> "SubtractOverflow", total |-> 0, released |-> 0]
                      ELSE ProfitLoop(start_height + 1, end_height, profit_factor,
                                      release_end, total_profit + block_profit,
                                      total_released
                                        + released_amount(block_profit, blocks_until_release))
    ELSE [err |-> "", total |-> FloorToU128(total_profit),
          released |-> FloorToU128(total_released)]

\* a calculation that also pays the block at which the mining ends
calc_profit_end_block(index, q) ==
    LET curr_staking == get_staking(index)
        end_height == get_mining_end_height(curr_staking, q) + 1
        profit_factor == staking_weight_of(curr_staking) * MINING_ONE_BLOCK_VOLUME
        r == ProfitLoop(curr_staking.staking_height, end_height, profit_factor,
                        end_height + 1, 0, 0)
    IN  [err |-> r.err, total |-> r.total, released |-> r.released,
         withdrawn |-> curr_staking.withdraw_coin_value]

calc_profit(index, q) ==
    LET curr_staking == get_staking(index)
        end_height == get_mining_end_height(curr_staking, q)
        profit_factor == staking_weight_of(curr_staking) * MINING_ONE_BLOCK_VOLUME
        release_end == get_release_end_height(curr_staking, q)
        r == ProfitLoop(curr_staking.staking_height, end_height, profit_factor,
                        release_end, 0, 0)
    IN  [err |-> r.err, total |-> r.total, released |-> r.released,
         withdrawn |-> curr_staking.withdraw_coin_value]

-----------------------------------------------------------------------------
(* forge-stake/tests: the reference calculator calc_profit_1 *)

\* the test suite's own multiplier table (whole numbers)
ref_period_to_weight_multiplier(period) ==
    CASE period = 30  -> 1
      [] period = 60  -> 2
      [] period = 90  -> 3
      [] period = 180 -> 5
      [] period = 360 -> 8
      [] OTHER        -> 1

\* max(min(t_e, end) - max(t_s, start), 0) on u64: the subtraction comes first,
\* and in the test build it panics when it would go below zero
RefUnderflows(staking, start, end, q) ==
    Min(get_mining_end_height(staking, q), end) < Max(staking.staking_height, start)

RECURSIVE RefAnyUnderflow(_, _, _, _)
RefAnyUnderflow(n, start, end, q) ==
    IF n = 0 THEN FALSE
    ELSE RefAnyUnderflow(n - 1, start, end, q) \/ RefUnderflows(get_staking(n), start, end, q)

RECURSIVE RefTotalWeight(_, _, _, _)
\* v: the sum over the positions 1 .. n of multiplier * (staking_value * length)
RefTotalWeight(n, start, end, q) ==
    IF n = 0 THEN 0
    ELSE LET staking == get_staking(n)
             length == Min(get_mining_end_height(staking, q), end) - Max(staking.staking_height, start)
         IN  RefTotalWeight(n - 1, start, end, q)
               + ref_period_to_weight_multiplier(staking.period) * (staking.staking_value * length)

RECURSIVE RefBlockWeight(_, _, _, _, _)
\* pre_v[h - start]: the weight of the positions 1 .. n whose overlap with
\* [start, end) holds h
RefBlockWeight(n, h, start, end, q) ==
    IF n = 0 THEN 0
    ELSE LET staking == get_staking(n)
             cross_s == Max(staking.staking_height, start)
             cross_e == Min(get_mining_end_height(staking, q), end)
         IN  RefBlockWeight(n - 1, h, start, end, q)
               + (IF cross_s <= h /\ h < cross_e
                  THEN ref_period_to_weight_multiplier(staking.period) * staking.staking_value
                  ELSE 0)

REF_MINING_ONE_BLOCK_VOLUME == 1
REF_PROFIT_RELEASE_HEIGHT == 1

RECURSIVE RefReleased(_, _, _, _, _, _)
\* release_p: the sum over the blocks h .. end - 1 of the released part of
\* curr_staking_w / pre_v * MINING_ONE_BLOCK_VOLUME
RefReleased(h, start, end, q, curr_staking_w, release_end) ==
    IF h >= end THEN 0
    ELSE LET block_weight == RefBlockWeight(orbital_count, h, start, end, q)
             block_profit == IF block_weight = 0 THEN 0
                             ELSE DecDiv(curr_staking_w, block_weight) * REF_MINING_ONE_BLOCK_VOLUME
             blocks_until_release == Max(release_end - (h + 1), 0)
             released == IF blocks_until_release >= REF_PROFIT_RELEASE_HEIGHT
                         THEN block_profit
                         ELSE DecMul(block_profit, DecDiv(1, REF_PROFIT_RELEASE_HEIGHT))
                                * blocks_until_release
         IN  released + RefReleased(h + 1, start, end, q, curr_staking_w, release_end)

RefResult(err, total, released, withdrawn) ==
    [err |-> err, total |-> total, released |-> released, withdrawn |-> withdrawn]

calc_profit_1(index, q) ==
    LET curr_staking == get_staking(index)
        start == curr_staking.staking_height
        end == get_mining_end_height(curr_staking, q)
        c == curr_staking.staking_value * (end - start)
               * ref_period_to_weight_multiplier(curr_staking.period)
        v == RefTotalWeight(orbital_count, start, end, q)
        p == DecDiv(c, v) * REF_MINING_ONE_BLOCK_VOLUME * (end - start)
        curr_staking_w == curr_staking.staking_value
                            * ref_period_to_weight_multiplier(curr_staking.period)
        release_end == get_release_end_height(curr_staking, q)
        release_p == RefReleased(start, start, end, q, curr_staking_w, release_end)
    IN  IF index = 0 THEN RefResult("Invalid staking index", 0, 0, 0)
        ELSE IF curr_staking.staking_height = 0 THEN RefResult("Staking not found", 0, 0, 0)
        ELSE IF start >= end THEN RefResult("", 0, 0, curr_staking.withdraw_coin_value)
        ELSE IF RefAnyUnderflow(orbital_count, start, end, q)
        THEN RefResult("SubtractOverflow", 0, 0, 0)
        ELSE IF v = 0 THEN RefResult("Division by zero in profit calculation", 0, 0, 0)
        ELSE RefResult("", FloorToU128(p), FloorToU128(release_p),
                       curr_staking.withdraw_coin_value)

-----------------------------------------------------------------------------
(* The environment of an invocation *)

\* context.myself: the pool, whose own token is the authorization token
Myself == AlkaneId(2, 0)

\* get_coin_id(): the reward token deployed by initialize
CoinId == AlkaneId(2, 1)

AlkaneTransfer(id, value) == [id |-> id, value |-> value]

\* context.incoming_alkanes of a stake
StakeParcels ==
    { <<AlkaneTransfer(Myself, 1)>>,
      <<>>,
      <<AlkaneTransfer(CoinId, 1)>>,
      <<AlkaneTransfer(Myself, 0)>>,
      <<AlkaneTransfer(Myself, 2)>>,
      <<AlkaneTransfer(Myself, 1), AlkaneTransfer(Myself, 1)>> }

\* the fields of the witness payload that Staking::from_tx decodes
StakeHeights == MINING_FIRST_HEIGHT .. (MINING_FIRST_HEIGHT + 1)

StakeValues == {MIN_STAKE_VALUE, 2 * MIN_STAKE_VALUE}

Periods == {1, 90}

PositionIds == {AlkaneId(2, n) : n \in 2 .. (MaxPositions + 1)}

Payload(value, period, h, id) ==
    [staking_value |-> value, period |-> period, staking_height |-> h, alkanes_id |-> id]

\* payloads that validate_staking_parameters accepts
\* (the last one names the first position's token as its referee)
ValidPayloads ==
    {Payload(v, p, h, AlkaneId(0, 0)) : v \in StakeValues, p \in Periods, h \in StakeHeights}
      \cup {Payload(MIN_STAKE_VALUE, 1, MINING_FIRST_HEIGHT, AlkaneId(2, 2))}

\* payloads that it rejects: before the window, after it, below the minimum,
\* after the window and below the minimum at once
BadPayloads ==
    { Payload(MIN_STAKE_VALUE, 1, MINING_FIRST_HEIGHT - 1, AlkaneId(0, 0)),
      Payload(MIN_STAKE_VALUE, 1, MINING_LAST_HEIGHT + 1, AlkaneId(0, 0)),
      Payload(MIN_STAKE_VALUE - 1, 1, MINING_FIRST_HEIGHT, AlkaneId(0, 0)),
      Payload(MIN_STAKE_VALUE - 1, 1, MINING_LAST_HEIGHT + 1, AlkaneId(0, 0)) }

\* what the call to the position-token template gives back
CallOutcomes == {"token", "several", "empty", "error"}

NominalParcel == <<AlkaneTransfer(Myself, 1)>>

NominalPayload == Payload(MIN_STAKE_VALUE, 1, MINING_FIRST_HEIGHT, AlkaneId(0, 0))

\* the invocations of stake, <<incoming, decoded, payload, outcome>>: every
\* accepted payload in a well-formed environment, every single fault, and
\* the invocation in which everything is at fault at once
StakeInputs ==
    {<<NominalParcel, TRUE, p, "token">> : p \in ValidPayloads \cup BadPayloads}
      \cup {<<i, TRUE, NominalPayload, "token">> : i \in StakeParcels}
      \cup {<<NominalParcel, FALSE, NominalPayload, "token">>}
      \cup {<<NominalParcel, TRUE, NominalPayload, o>> : o \in CallOutcomes}
      \cup {<<i, FALSE, Payload(MIN_STAKE_VALUE - 1, 1, MINING_LAST_HEIGHT + 1, AlkaneId(0, 0)), "empty">> :
                i \in StakeParcels}

\* context.caller of an unstake or a claim: a position token, whose contract
\* (forge-stoken) presents no alkanes of its own with the call
Callers == PositionIds \cup {Myself}

\* response: the operation, its caller, the error it failed with ("" when it
\* succeeded), the alkanes of its CallResponse, for a claim, how the claim
\* of the same caller that directly preceded it in this block ended, the data
\* of a query, and the number of calls made to the position-token template
NoResponse ==
    [op |-> "none", caller |-> Myself, err |-> "", alkanes |-> <<>>, after |-> "none",
     data |-> <<>>, calls |-> 0]

Response(op, caller, err, alkanes) ==
    [op |-> op, caller |-> caller, err |-> err, alkanes |-> alkanes, after |-> "none",
     data |-> <<>>, calls |-> 0]

\* the response of a query: no alkanes, the answer in response.data
DataResponse(op, err, data) ==
    [op |-> op, caller |-> Myself, err |-> err, alkanes |-> <<>>, after |-> "none",
     data |-> data, calls |-> 0]

ClaimResponse(caller, err, alkanes) ==
    [op |-> "claim", caller |-> caller, err |-> err, alkanes |-> alkanes,
     after |-> IF response.op = "claim" /\ response.caller = caller
               THEN (IF response.alkanes # <<>> THEN "paid" ELSE "unpaid")
               ELSE "none",
     data |-> <<>>, calls |-> 0]

-----------------------------------------------------------------------------
(* forge-stake: the handlers *)

\* a gate that lets every parcel through
verify_owner_authentication_open(incoming) == ""

verify_owner_authentication(incoming) ==
    IF Len(incoming) # 1 THEN "AuthenticationFailed"
    ELSE IF incoming[1].id # Myself THEN "AuthenticationFailed"
    ELSE IF incoming[1].value < 1 THEN "AuthenticationFailed"
    ELSE ""

\* a validation that forgets the minimum
validate_staking_parameters_window(staking) ==
    IF staking.staking_height < MINING_FIRST_HEIGHT THEN "MiningNotStarted"
    ELSE IF staking.staking_height > MINING_LAST_HEIGHT THEN "MiningEnded"
    ELSE ""

\* a validation that forgets when mining starts
validate_staking_parameters_late(staking) ==
    IF staking.staking_height > MINING_LAST_HEIGHT THEN "MiningEnded"
    ELSE IF staking.staking_value < MIN_STAKE_VALUE THEN "InsufficientStakeValue"
    ELSE ""

validate_staking_parameters(staking) ==
    IF staking.staking_height < MINING_FIRST_HEIGHT THEN "MiningNotStarted"
    ELSE IF staking.staking_height > MINING_LAST_HEIGHT THEN "MiningEnded"
    ELSE IF staking.staking_value < MIN_STAKE_VALUE THEN "InsufficientStakeValue"
    ELSE ""

\* an invite list that takes the newcomer at its head
set_invite_relationship_front(index, invite_index) ==
    IF invite_index > 0
    THEN Put(invites, invite_index, <<index>> \o get_invited_indices(invite_index))
    ELSE invites

set_invite_relationship(index, invite_index) ==
    IF invite_index > 0
    THEN Put(invites, invite_index, Append(get_invited_indices(invite_index), index))
    ELSE invites

\* add_staking_position: the record, the id index, the invite list, the snapshot
\* at staking_height, the expire delta at the expiry height, the counter
add_staking_position(index, staking) ==
    LET staking_weight == staking_weight_of(staking)
        current_weight == get_staking_weight(staking.staking_height)
        current_expire_weight == get_staking_expire(get_expire_height(staking))
    IN  /\ stakings' = Put(stakings, index, staking)
        /\ id2index' = Put(id2index, staking.alkanes_id, index)
        /\ invites' = set_invite_relationship(index, staking.invite_index)
        /\ weights' = Put(weights, staking.staking_height, current_weight + staking_weight)
        /\ expires' = Put(expires, get_expire_height(staking), current_expire_weight + staking_weight)
        /\ orbital_count' = index

\* subresponse.alkanes: what the position-token template returns
Subresponse(outcome) ==
    CASE outcome = "token" -> <<AlkaneTransfer(AlkaneId(2, sequence), 1)>>
      [] outcome = "several" -> <<AlkaneTransfer(AlkaneId(2, sequence), 1),
                                  AlkaneTransfer(AlkaneId(2, sequence), 1)>>
      [] OTHER -> <<>>

\* a stake that hands on everything the template returned
position_receipt_all(subresponse) == subresponse

\* response.alkanes.0.push(subresponse.alkanes.0[0].clone())
position_receipt(subresponse) == <<subresponse[1]>>

\* the calls to the template that a stake ending with err has made: one, unless
\* it failed before reaching the call
template_calls(err) ==
    IF err \in {"", "StorageError"} THEN 1 ELSE 0

\* the error a stake ends with, "" when it succeeds
stake_error(incoming, decoded, payload, outcome) ==
    IF verify_owner_authentication(incoming) # "" THEN verify_owner_authentication(incoming)
    ELSE IF ~decoded THEN "InvalidStakingTransaction"
    ELSE IF validate_staking_parameters(payload) # "" THEN validate_staking_parameters(payload)
    ELSE IF outcome = "error" THEN "StorageError"
    ELSE IF outcome = "empty" THEN "StorageError"
    ELSE ""

\* the stake has come as far as add_staking_position: the template's answer
\* is only looked at after the position has been written
writes_position(incoming, decoded, payload, outcome) ==
    /\ verify_owner_authentication(incoming) = ""
    /\ decoded
    /\ validate_staking_parameters(payload) = ""
    /\ outcome # "error"

\* a host that keeps the writes of a failed invocation
rolls_back_never(err) == FALSE

\* the host: an invocation that ends with an error keeps none of its writes
rolls_back(err) == err # ""

stake(incoming, decoded, payload, outcome) ==
    LET err == stake_error(incoming, decoded, payload, outcome)
        staking_index == get_next_staking_index
    IN  /\ response' = [Response("stake", Myself, err,
                                 IF err = ""
                                 THEN incoming \o position_receipt(Subresponse(outcome))
                                 ELSE <<>>)
                           EXCEPT !.calls = template_calls(err)]
        /\ IF writes_position(incoming, decoded, payload, outcome) /\ ~rolls_back(err)
           THEN /\ add_staking_position(staking_index,
                       [staking_value |-> payload.staking_value,
                        period |-> payload.period,
                        invite_index |-> get_staking_index_by_id(payload.alkanes_id),
                        staking_height |-> payload.staking_height,
                        unstaking_height |-> 0,
                        alkanes_id |-> AlkaneId(2, sequence),
                        withdraw_coin_value |-> 0])
                /\ sequence' = sequence + 1
           ELSE UNCHANGED <<store, sequence>>

\* the stakes of a pool whose counter stays below the limit of its type
Stake ==
    /\ \E in \in StakeInputs :
          /\ stake_error(in[1], in[2], in[3], in[4]) = "" => orbital_count < MaxPositions
          /\ stake(in[1], in[2], in[3], in[4])
    /\ UNCHANGED <<height, walk, transferred>>

\* an unstake that never refuses
process_unstake_error_never(index) == ""

\* the check that opens process_unstake
process_unstake_error(index) ==
    IF get_staking(index).unstaking_height > 0 THEN "AlreadyUnstaking" ELSE ""

\* an unstake that takes no position for expired
has_expired_never(staking) == FALSE

\* staking.get_expire_height() <= self.height()
has_expired(staking) == get_expire_height(staking) <= height

\* an unstake that leaves the position's weight among the expire deltas
process_unstake_keeps_expire(index) ==
    LET staking == get_staking(index)
        unstaked == [staking EXCEPT !.unstaking_height = height]
    IN  /\ stakings' = Put(stakings, index, unstaked)
        /\ IF get_expire_height(staking) <= height
           THEN UNCHANGED <<weights, expires>>
           ELSE /\ weights' = Put(weights, height,
                                  get_staking_weight(height) - staking_weight_of(staking))
                /\ UNCHANGED expires

process_unstake(index) ==
    LET staking == get_staking(index)
        unstaked == [staking EXCEPT !.unstaking_height = height]
        staking_weight == staking_weight_of(staking)
        current_weight == get_staking_weight(height)
        current_expire_weight == get_staking_expire(get_expire_height(staking))
    IN  /\ stakings' = Put(stakings, index, unstaked)
        /\ IF has_expired(staking)
           THEN UNCHANGED <<weights, expires>>
           ELSE /\ weights' = Put(weights, height, current_weight - staking_weight)
                /\ expires' = Put(expires, get_expire_height(staking), current_expire_weight - staking_weight)

unstake(caller) ==
    LET caller_index == get_staking_index_by_id(caller)
    IN  IF caller_index = 0
        THEN /\ response' = Response("unstake", caller, "CallerNotStaker", <<>>)
             /\ UNCHANGED store
        ELSE IF process_unstake_error(caller_index) # ""
        THEN /\ response' = Response("unstake", caller, process_unstake_error(caller_index), <<>>)
             /\ UNCHANGED store
        ELSE /\ process_unstake(caller_index)
             /\ response' = Response("unstake", caller, "", <<>>)
             /\ UNCHANGED <<orbital_count, id2index, invites>>

Unstake ==
    /\ \E caller \in Callers : unstake(caller)
    /\ UNCHANGED <<height, sequence, walk, transferred>>

\* a subtraction that forgets what was withdrawn
saturating_sub_nothing(a, b) == a

\* u128::saturating_sub
saturating_sub(a, b) == Max(a - b, 0)

\* a claim that pays without writing the withdrawal down
withdraw_unrecorded(staking, claimable_amount) == staking

\* a claim that also ends the position
withdraw_unstaking(staking, claimable_amount) ==
    [staking EXCEPT !.withdraw_coin_value = @ + claimable_amount,
                    !.unstaking_height = height]

\* a claim that writes the withdrawal down twice
withdraw_twice(staking, claimable_amount) ==
    [staking EXCEPT !.withdraw_coin_value = @ + 2 * claimable_amount]

\* staking.withdraw_coin_value += claimable_amount
withdraw(staking, claimable_amount) ==
    [staking EXCEPT !.withdraw_coin_value = @ + claimable_amount]

claim(caller) ==
    LET caller_index == get_staking_index_by_id(caller)
        profit == calc_profit(caller_index, height)
        claimable_amount == saturating_sub(profit.released, profit.withdrawn)
        staking == get_staking(caller_index)
    IN  IF caller_index = 0
        THEN /\ response' = ClaimResponse(caller, "CallerNotStaker", <<>>)
             /\ UNCHANGED store
        ELSE IF profit.err # ""
        THEN /\ response' = ClaimResponse(caller, profit.err, <<>>)
             /\ UNCHANGED store
        ELSE IF claimable_amount > 0
        THEN /\ response' = ClaimResponse(caller, "", <<AlkaneTransfer(CoinId, claimable_amount)>>)
             /\ stakings' = Put(stakings, caller_index, withdraw(staking, claimable_amount))
             /\ UNCHANGED <<orbital_count, id2index, invites, weights, expires>>
        ELSE /\ response' = ClaimResponse(caller, "", <<>>)
             /\ UNCHANGED store

\* the coins that leave the pool with a response, booked on the position
sent_out(index, alkanes) ==
    IF alkanes = <<>> THEN transferred
    ELSE Put(transferred, index, GetValue(transferred, index) + alkanes[1].value)

Claim ==
    /\ \E caller \in Callers :
          /\ claim(caller)
          /\ transferred' = sent_out(get_staking_index_by_id(caller), response'.alkanes)
    /\ UNCHANGED <<height, sequence, walk>>

\* the indices and the heights that the queries are made with: every index up
\* to the counter's limit, created or not, and the present height and the
\* height one release window later
QueryIndices == 0 .. MaxPositions

QueryHeights == {height, height + PROFIT_RELEASE_HEIGHT}

\* a query that keeps the weight it has looked up
get_profit_caching(index, q) ==
    /\ response' = DataResponse("get_profit", "", <<>>)
    /\ weights' = Put(weights, q, get_staking_weight(q))
    /\ UNCHANGED <<orbital_count, stakings, id2index, invites, expires>>

\* get_profit: the triple of calc_profit as response.data, nothing written
get_profit(index, q) ==
    LET profit == calc_profit(index, q)
    IN  /\ response' = IF profit.err # ""
                       THEN DataResponse("get_profit", profit.err, <<>>)
                       ELSE DataResponse("get_profit", "",
                                         <<profit.total, profit.released, profit.withdrawn>>)
        /\ UNCHANGED store

GetProfit ==
    /\ \E index \in QueryIndices : \E q \in QueryHeights : get_profit(index, q)
    /\ UNCHANGED <<height, sequence, walk, transferred>>

\* get_attributes: the stored record, as get_staking returns it, as response.data
get_attributes(index) ==
    /\ response' = DataResponse("get_attributes", "", <<get_staking(index)>>)
    /\ UNCHANGED store

GetAttributes ==
    /\ \E index \in QueryIndices : get_attributes(index)
    /\ UNCHANGED <<height, sequence, walk, transferred>>

\* the chain moves on to the next block
Tick ==
    /\ height < MINING_FIRST_HEIGHT + MaxTicks
    /\ height' = height + 1
    /\ response' = NoResponse
    /\ UNCHANGED <<store, sequence, walk, transferred>>

-----------------------------------------------------------------------------
(* get_staking_weight, one iteration of its loop at a time *)

\* no lookup in progress
WalkIdle ==
    [pc |-> "idle", height |-> 0, lower_bound |-> 0, current_height |-> 0,
     weight |-> 0, visited |-> <<>>]

\* the heights a lookup is made for, with the height at which its loop stops:
\* MINING_FIRST_HEIGHT in forge-stake, 0 in the older revision of the pool
WalkQueries ==
    {<<h, MINING_FIRST_HEIGHT>> :
        h \in (MINING_FIRST_HEIGHT - 1) .. (MINING_FIRST_HEIGHT + MaxTicks + BLOCKS_PER_DAY)}
      \cup {<<h, 0>> : h \in 0 .. MaxTicks}

\* up to the loop: a snapshot at the queried height is returned directly
walk_enter(h, lower_bound) ==
    IF Has(weights, h)
    THEN [pc |-> "return", height |-> h, lower_bound |-> lower_bound,
          current_height |-> h, weight |-> weights[h], visited |-> <<>>]
    ELSE [pc |-> "while", height |-> h, lower_bound |-> lower_bound,
          current_height |-> h, weight |-> 0 - get_staking_expire(h), visited |-> <<>>]

\* an iteration that forgets to step down
walk_iterate_stuck(w) ==
    IF w.current_height > w.lower_bound
    THEN LET c == w.current_height
         IN  IF Has(weights, c)
             THEN [w EXCEPT !.weight = @ + weights[c],
                            !.visited = Append(@, c), !.pc = "return"]
             ELSE [w EXCEPT !.weight = @ - get_staking_expire(c),
                            !.visited = Append(@, c)]
    ELSE [w EXCEPT !.pc = "return"]

\* the loop's test and one pass through its body
walk_iterate(w) ==
    IF w.current_height > w.lower_bound
    THEN LET c == w.current_height - 1
         IN  IF Has(weights, c)
             THEN [w EXCEPT !.current_height = c, !.weight = @ + weights[c],
                            !.visited = Append(@, c), !.pc = "return"]
             ELSE [w EXCEPT !.current_height = c, !.weight = @ - get_staking_expire(c),
                            !.visited = Append(@, c)]
    ELSE [w EXCEPT !.pc = "return"]

GetStakingWeightEnter ==
    /\ walk.pc = "idle"
    /\ \E query \in WalkQueries : walk' = walk_enter(query[1], query[2])
    /\ UNCHANGED <<height, sequence, store, response, transferred>>

GetStakingWeightIterate ==
    /\ walk.pc = "while"
    /\ walk' = walk_iterate(walk)
    /\ UNCHANGED <<height, sequence, store, response, transferred>>

GetStakingWeightReturn ==
    /\ walk.pc = "return"
    /\ walk' = WalkIdle
    /\ UNCHANGED <<height, sequence, store, response, transferred>>

-----------------------------------------------------------------------------

\* the pool right after initialize: no position, an empty ledger
Init ==
    /\ height = MINING_FIRST_HEIGHT
    /\ sequence = 2
    /\ orbital_count = 0
    /\ stakings = EmptyMap
    /\ id2index = EmptyMap
    /\ invites = EmptyMap
    /\ weights = EmptyMap
    /\ expires = EmptyMap
    /\ response = NoResponse
    /\ walk = WalkIdle
    /\ transferred = EmptyMap

Next == Stake \/ Unstake \/ Claim \/ GetProfit \/ GetAttributes \/ Tick

Spec == Init /\ [][Next]_vars

\* the stakes of a pool that is also staked into when its counter has reached
\* the limit of its type: one stake more than the counter can count
LimitInputs ==
    { <<NominalParcel, TRUE, NominalPayload, "token">>,
      <<NominalParcel, TRUE, Payload(2 * MIN_STAKE_VALUE, 90, MINING_FIRST_HEIGHT, AlkaneId(0, 0)), "token">>,
      <<NominalParcel, TRUE, NominalPayload, "error">> }

StakeAtLimit ==
    /\ \E in \in LimitInputs :
          /\ stake_error(in[1], in[2], in[3], in[4]) = "" => sequence <= U128_MAX + 2
          /\ stake(in[1], in[2], in[3], in[4])
    /\ UNCHANGED <<height, walk, transferred>>

NextAtLimit == StakeAtLimit \/ Unstake \/ Tick

SpecAtLimit == Init /\ [][NextAtLimit]_vars

\* the stakes of a pool whose positions all start at the block they are staked
\* in, some of them with a period of 0 days (period is a u16 that stake
\* does not validate)
ZeroPeriodPayloads ==
    {Payload(MIN_STAKE_VALUE, p, height, AlkaneId(0, 0)) : p \in {0, 1}}

StakeZeroPeriod ==
    /\ orbital_count < MaxPositions
    /\ \E payload \in ZeroPeriodPayloads : stake(NominalParcel, TRUE, payload, "token")
    /\ UNCHANGED <<height, walk, transferred>>

NextZeroPeriod == StakeZeroPeriod \/ Unstake \/ Tick

SpecZeroPeriod == Init /\ [][NextZeroPeriod]_vars

\* the stakes of a pool whose stakers name each other as referees: no
\* referee, the token of the first or of the second position, a token that
\* is no position's
InvitePayloads ==
    {Payload(MIN_STAKE_VALUE, 1, MINING_FIRST_HEIGHT, id) :
        id \in {AlkaneId(0, 0), AlkaneId(2, 2), AlkaneId(2, 3), CoinId}}

StakeInvited ==
    /\ orbital_count < MaxInvited
    /\ \E payload \in InvitePayloads : \E outcome \in {"token", "empty"} :
          stake(NominalParcel, TRUE, payload, outcome)
    /\ UNCHANGED <<height, walk, transferred>>

NextInvited == StakeInvited \/ Unstake \/ Tick

SpecInvited == Init /\ [][NextInvited]_vars

\* the pool with its lookups unfolded: the ledger is written between two
\* lookups, never during one (an invocation runs alone)
WalkStake == walk.pc = "idle" /\ StakeZeroPeriod

WalkTick == walk.pc = "idle" /\ Tick

NextWalk ==
    WalkStake \/ WalkTick \/ GetStakingWeightEnter \/ GetStakingWeightIterate
      \/ GetStakingWeightReturn

\* a lookup that has begun is carried on
SpecWalk == Init /\ [][NextWalk]_vars /\ WF_vars(GetStakingWeightIterate)

-----------------------------------------------------------------------------
(* alkanes/staking_pool: the older revision, whose ledger is kept per day *)

\* (height - MINING_FIRST_HEIGHT) / 144
height_to_no(h) == (h - MINING_FIRST_HEIGHT) \div BLOCKS_PER_DAY

\* the multiplier in tenths
period_to_w(period) ==
    CASE period = 30  -> 10
      [] period = 90  -> 15
      [] period = 180 -> 18
      [] period = 360 -> 22
      [] OTHER        -> 10

RECURSIVE DayWalk(_, _)
\* the loop of the older get_staking_weight: down to key 0
DayWalk(current, w) ==
    IF current > 0
    THEN LET c == current - 1
         IN  IF Has(weights, c)
             THEN w + weights[c]
             ELSE DayWalk(c, w - get_staking_expire(c))
    ELSE w

\* the older get_staking_weight, over the keys of /staking_weight/
day_get_staking_weight(key) ==
    IF Has(weights, key)
    THEN weights[key]
    ELSE DayWalk(key, 0 - get_staking_expire(key))

\* add_staking: snapshot and expire delta under the day numbers of the
\* staking height and of the expire height
add_staking(index, staking) ==
    LET curr_w == staking.staking_value * period_to_w(staking.period)
        start_no == height_to_no(staking.staking_height)
        expire_no == height_to_no(get_expire_height(staking))
    IN  /\ stakings' = Put(stakings, index, staking)
        /\ id2index' = Put(id2index, staking.alkanes_id, index)
        /\ invites' = set_invite_relationship(index, staking.invite_index)
        /\ weights' = Put(weights, start_no, day_get_staking_weight(start_no) + curr_w)
        /\ expires' = Put(expires, expire_no, get_staking_expire(expire_no) + curr_w)
        /\ orbital_count' = index

\* staking_unstaking: the weight is read under the day number of the unstake
\* height and written under the unstake height itself
staking_unstaking(index) ==
    LET staking == get_staking(index)
        curr_w == staking.staking_value * period_to_w(staking.period)
        h_w == day_get_staking_weight(height_to_no(height))
        expire_no == height_to_no(get_expire_height(staking))
    IN  /\ stakings' = Put(stakings, index, [staking EXCEPT !.unstaking_height = height])
        /\ IF get_expire_height(staking) <= height
           THEN UNCHANGED <<weights, expires>>
           ELSE /\ weights' = Put(weights, height, h_w - curr_w)
                /\ expires' = Put(expires, expire_no, get_staking_expire(expire_no) - curr_w)

\* the stakes of the older pool: periods of one and of three days
DayPayloads ==
    {Payload(v, p, h, AlkaneId(0, 0)) : v \in StakeValues, p \in {1, 3}, h \in StakeHeights}

\* staking, for a transaction that passes its checks
DayStaking ==
    /\ orbital_count < MaxPositions
    /\ \E payload \in DayPayloads :
          add_staking(orbital_count + 1,
              [staking_value |-> payload.staking_value,
               period |-> payload.period,
               invite_index |-> GetValue(id2index, payload.alkanes_id),
               staking_height |-> payload.staking_height,
               unstaking_height |-> 0,
               alkanes_id |-> AlkaneId(2, sequence),
               withdraw_coin_value |-> 0])
    /\ sequence' = sequence + 1
    /\ response' = Response("stake", Myself, "", <<>>)
    /\ UNCHANGED <<height, walk, transferred>>

\* unstaking
DayUnstaking ==
    /\ \E caller \in Callers :
          LET caller_index == GetValue(id2index, caller)
          IN  IF caller_index = 0
              THEN /\ response' = Response("unstake", caller, "caller is not staking", <<>>)
                   /\ UNCHANGED store
              ELSE IF get_staking(caller_index).unstaking_height > 0
              THEN /\ response' = Response("unstake", caller, "already unstaking", <<>>)
                   /\ UNCHANGED store
              ELSE /\ staking_unstaking(caller_index)
                   /\ response' = Response("unstake", caller, "", <<>>)
                   /\ UNCHANGED <<orbital_count, id2index, invites>>
    /\ UNCHANGED <<height, sequence, walk, transferred>>

NextDay == DayStaking \/ DayUnstaking \/ Tick

SpecDay == Init /\ [][NextDay]_vars

-----------------------------------------------------------------------------
(* What the claims speak of *)

\* the heights at which the ledger and the calculators are examined: the
\* window's first heights, up to past the last expiry and the last release
Heights ==
    MINING_FIRST_HEIGHT .. (MINING_FIRST_HEIGHT + MaxTicks + BLOCKS_PER_DAY + PROFIT_RELEASE_HEIGHT)

Indices == 1 .. orbital_count

\* position s earns at height h: startHeight <= h < min(expiryHeight, unstakeHeight if non-zero)
Active(s, h) ==
    /\ s.staking_height <= h
    /\ h < get_expire_height(s)
    /\ s.unstaking_height > 0 => h < s.unstaking_height

RECURSIVE ActiveWeightUpTo(_, _)
ActiveWeightUpTo(n, h) ==
    IF n = 0 THEN 0
    ELSE ActiveWeightUpTo(n - 1, h)
           + (IF Active(get_staking(n), h) THEN staking_weight_of(get_staking(n)) ELSE 0)

\* the sum of amount * weightOf(period) over the positions active at h
ActiveWeight(h) == ActiveWeightUpTo(orbital_count, h)

-----------------------------------------------------------------------------
(* C1 *)

\* C1: after any sequence of successful stakes and unstakes, weightAt(h)
\* (get_staking_weight) equals, at every height h of the window, the sum of
\* the weights of exactly the positions active at h, whatever the order in
\* which the start heights and the unstake heights were presented.
C1_LedgerIsSumOfActive ==
    \A h \in Heights : get_staking_weight(h) = ActiveWeight(h)

-----------------------------------------------------------------------------
(* C2 *)

\* C2: for every stored position and every query height, in every reachable
\* state, calc_profit and the reference calculator calc_profit_1 return the
\* identical triple (accrued, vested, withdrawn).
C2_CalculatorsAgree ==
    \A i \in Indices : \A q \in Heights :
        LET a == calc_profit(i, q)
            b == calc_profit_1(i, q)
        IN  /\ a.err = "" /\ b.err = ""
            /\ a.total = b.total
            /\ a.released = b.released
            /\ a.withdrawn = b.withdrawn

-----------------------------------------------------------------------------
(* C3 *)

\* C3: right after a single position with weight w is created at height h0 in
\* an otherwise empty pool, weightAt(h) = w for every h in [h0, expiryHeight)
\* and weightAt(h) = 0 for every h < h0.
C3_SinglePositionWeight ==
    (orbital_count = 1 /\ get_staking(1).unstaking_height = 0)
        => LET s == get_staking(1)
           IN  \A h \in {MINING_FIRST_HEIGHT - 1} \cup Heights :
                   /\ h < s.staking_height => get_staking_weight(h) = 0
                   /\ (s.staking_height <= h /\ h < get_expire_height(s))
                          => get_staking_weight(h) = staking_weight_of(s)

\* the stake that created the pool's only position has just returned
C3_Witness ==
    /\ orbital_count = 1
    /\ response.op = "stake" /\ response.err = ""
    /\ get_staking(1).staking_height > MINING_FIRST_HEIGHT
    /\ get_staking_weight(get_staking(1).staking_height + 1) = staking_weight_of(get_staking(1))

-----------------------------------------------------------------------------
(* C4 *)

\* the weight that position s adds to the total at height h while it is not unstaked
Contribution(s, h) ==
    IF s.staking_height <= h /\ h < get_expire_height(s) THEN staking_weight_of(s) ELSE 0

\* C4: when a position of weight w is unstaked at a height U below its
\* expiryHeight, then afterwards, at every height h >= U, weightAt(h) is what
\* it was less the w it held for that position (also when U is below the
\* position's startHeight or when snapshots exist above U), and
\* expireDelta[expiryHeight] has lost the w that the creation had added.
C4_UnstakeRemovesWeight ==
    [][\A i \in Indices :
          LET s == get_staking(i)
          IN  (/\ response'.op = "unstake" /\ response'.err = ""
               /\ get_staking_index_by_id(response'.caller) = i
               /\ height < get_expire_height(s))
                  => /\ \A h \in Heights :
                            h >= height =>
                                get_staking_weight(h)' = get_staking_weight(h) - Contribution(s, h)
                     /\ get_staking_expire(get_expire_height(s))'
                            = get_staking_expire(get_expire_height(s)) - staking_weight_of(s)]_vars

-----------------------------------------------------------------------------
(* C5 *)

\* C5: in every reachable state, for every stored position, every query height
\* q and every height h in [startHeight, miningEndHeight(q)), weightAt(h) is
\* strictly positive, so that calc_profit never divides by zero.
C5_WeightPositiveWhileMining ==
    \A i \in Indices : \A q \in Heights :
        LET s == get_staking(i)
        IN  /\ \A h \in Heights :
                   (s.staking_height <= h /\ h < get_mining_end_height(s, q))
                       => get_staking_weight(h) > 0
            /\ calc_profit(i, q).err # "DivisionByZero"

-----------------------------------------------------------------------------
(* C6 *)

\* claimable(q) of position i on the present state, as claim computes it
Claimable(i, q) ==
    Max(calc_profit(i, q).released - calc_profit(i, q).withdrawn, 0)

\* C6: for a fixed position and a fixed ledger state, claimable(q) is defined
\* and does not decrease as the query height q grows, and for q <= startHeight
\* it is 0, with no error.
C6_ClaimableMonotone ==
    \A i \in Indices : \A q \in Heights :
        /\ calc_profit(i, q).err = ""
        /\ q <= get_staking(i).staking_height => Claimable(i, q) = 0
        /\ (q + 1) \in Heights => Claimable(i, q) <= Claimable(i, q + 1)

-----------------------------------------------------------------------------
(* C9 *)

\* C9: no step lowers a position's withdrawnAmount, and right after a claim
\* that succeeded at height q the claimant's withdrawnAmount is at most
\* vested(index, q) computed on the state the claim leaves behind.
C9_WithdrawnBounded ==
    [][/\ \A i \in Indices :
              get_staking(i)'.withdraw_coin_value >= get_staking(i).withdraw_coin_value
       /\ \A c \in Callers :
              (response'.op = "claim" /\ response'.err = "" /\ response'.caller = c)
                  => get_staking(get_staking_index_by_id(c))'.withdraw_coin_value
                         <= calc_profit(get_staking_index_by_id(c), height)'.released]_vars

-----------------------------------------------------------------------------
(* C7 *)

\* C7: a claim that directly follows a claim of the same position at the same
\* block height makes no reward transfer and changes nothing in the store,
\* while a claim that finds something claimable does make a transfer.
C7_SecondClaimIsNoOp ==
    [][/\ (response'.op = "claim" /\ response'.after # "none")
              => (response'.alkanes = <<>> /\ UNCHANGED store)
       /\ \A c \in Callers :
              (/\ response'.op = "claim" /\ response'.caller = c
               /\ get_staking_index_by_id(c) # 0
               /\ calc_profit(get_staking_index_by_id(c), height).err = ""
               /\ Claimable(get_staking_index_by_id(c), height) > 0)
                  => response'.alkanes # <<>>]_vars

\* the second of two claims in a row has returned, after a first one that paid
C7_Witness ==
    /\ response.op = "claim" /\ response.err = ""
    /\ response.after = "paid"
    /\ response.alkanes = <<>>

-----------------------------------------------------------------------------
(* C8 *)

\* C8: a claim at height q by the holder of position i, on which the profit
\* calculation succeeds, transfers exactly vested(i, q) - withdrawnAmount of
\* the reward token and adds it to withdrawnAmount when that is positive;
\* otherwise it succeeds with no transfer and leaves the store as it was.
C8_ClaimPaysClaimable ==
    [][\A c \in Callers :
          LET i == get_staking_index_by_id(c)
              vested == calc_profit(i, height).released
              withdrawn == get_staking(i).withdraw_coin_value
          IN  (/\ response'.op = "claim" /\ response'.caller = c
               /\ i # 0 /\ calc_profit(i, height).err = "")
                  => /\ response'.err = ""
                     /\ IF vested - withdrawn > 0
                        THEN /\ response'.alkanes = <<AlkaneTransfer(CoinId, vested - withdrawn)>>
                             /\ get_staking(i)' = [get_staking(i) EXCEPT !.withdraw_coin_value = vested]
                             /\ UNCHANGED <<orbital_count, id2index, invites, weights, expires>>
                        ELSE /\ response'.alkanes = <<>>
                             /\ UNCHANGED store]_vars

\* a claim has paid a position that had withdrawn before
C8_Witness ==
    /\ response.op = "claim" /\ response.err = ""
    /\ Len(response.alkanes) = 1
    /\ response.alkanes[1].id = CoinId
    /\ get_staking(get_staking_index_by_id(response.caller)).withdraw_coin_value
           > response.alkanes[1].value

-----------------------------------------------------------------------------
(* C10 *)

\* C10: a non-zero unstakeHeight never changes, and an unstake of a position
\* whose unstakeHeight is already non-zero fails with AlreadyUnstaking and
\* leaves the position record, the snapshots and the expire deltas unchanged.
C10_UnstakeOnce ==
    [][\A i \in Indices :
          get_staking(i).unstaking_height # 0
              => /\ get_staking(i)'.unstaking_height = get_staking(i).unstaking_height
                 /\ \A c \in Callers :
                        (/\ response'.op = "unstake" /\ response'.caller = c
                         /\ get_staking_index_by_id(c) = i)
                            => /\ response'.err = "AlreadyUnstaking"
                               /\ UNCHANGED store]_vars

\* a second unstake of the same position has been refused, at a later height
C10_Witness ==
    /\ response.op = "unstake" /\ response.err = "AlreadyUnstaking"
    /\ get_staking(get_staking_index_by_id(response.caller)).unstaking_height \in 1 .. (height - 1)

-----------------------------------------------------------------------------
(* C11 *)

\* the name under which the specification reports an error of the code
SpecError(err) ==
    CASE err \in {"MiningNotStarted", "MiningEnded"} -> "OutOfWindow"
      [] err = "InsufficientStakeValue" -> "BelowMinimum"
      [] err = "CallerNotStaker" -> "NotAStaker"
      [] err = "InvalidStakingTransaction" -> "InvalidStakeRequest"
      [] OTHER -> err

OutOfWindow(payload) ==
    payload.staking_height < MINING_FIRST_HEIGHT \/ payload.staking_height > MINING_LAST_HEIGHT

\* C11: a stake request that reaches validation with a startHeight outside the
\* mining window fails with OutOfWindow, one inside the window with an amount
\* below MIN_STAKE fails with BelowMinimum, and in both cases the counter, the
\* records, the owner-token index, the invite lists and both series are unchanged.
C11_RejectedStakeWritesNothing ==
    [][response'.op = "stake"
          => \A p \in BadPayloads :
                stake(NominalParcel, TRUE, p, "token")
                    => /\ SpecError(response'.err)
                              = (IF OutOfWindow(p) THEN "OutOfWindow" ELSE "BelowMinimum")
                       /\ UNCHANGED store]_vars

\* a stake below the minimum has been refused by a pool that holds positions
C11_Witness ==
    /\ response.op = "stake"
    /\ SpecError(response.err) = "BelowMinimum"
    /\ orbital_count > 0 /\ weights # EmptyMap

-----------------------------------------------------------------------------
(* C12 *)

\* C12: an unstake or a claim by a caller whose token identifier resolves to
\* no position index fails with NotAStaker, transfers nothing, and leaves the
\* position records and both ledger series unchanged.
C12_UnknownCallerRefused ==
    [][\A c \in Callers :
          (/\ GetValue(id2index, c) = 0
           /\ response'.op \in {"unstake", "claim"}
           /\ response'.caller = c)
              => /\ SpecError(response'.err) = "NotAStaker"
                 /\ response'.alkanes = <<>>
                 /\ UNCHANGED store]_vars

\* a caller that holds no position has been refused by a pool that holds one
C12_Witness ==
    /\ response.op \in {"unstake", "claim"}
    /\ response.err = "CallerNotStaker"
    /\ response.caller \in PositionIds
    /\ orbital_count > 0

-----------------------------------------------------------------------------
(* C13 *)

\* C13: a successful stake is assigned the index count + 1, which no position
\* holds yet, and sets the count to it; every record that exists stays, and
\* stays the record of the same position (the same owner token, amount,
\* period and start height).
C13_IndexNeverReused ==
    [][/\ (response'.op = "stake" /\ response'.err = "")
              => /\ orbital_count' = orbital_count + 1
                 /\ ~Has(stakings, orbital_count')
                 /\ Has(stakings', orbital_count')
       /\ \A i \in DOMAIN stakings :
              /\ Has(stakings', i)
              /\ stakings'[i].alkanes_id = stakings[i].alkanes_id
              /\ stakings'[i].staking_value = stakings[i].staking_value
              /\ stakings'[i].period = stakings[i].period
              /\ stakings'[i].staking_height = stakings[i].staking_height]_vars

-----------------------------------------------------------------------------
(* C14 *)

\* C14: when the position counter is at the maximum of its integer type, a
\* stake fails, with ArithmeticOverflow when nothing else is wrong with it,
\* and writes nothing: no index is handed out again, no record is overwritten.
C14_CounterOverflowFails ==
    [][\A in \in LimitInputs :
          (/\ orbital_count = U128_MAX
           /\ stake_error(in[1], in[2], in[3], in[4]) = ""
           /\ stake(in[1], in[2], in[3], in[4]))
              => /\ response'.err = "ArithmeticOverflow"
                 /\ UNCHANGED store]_vars

-----------------------------------------------------------------------------
(* C15 *)

\* the parcel that a successful stake forwards in its response, ahead of the
\* position token
ForwardedParcel(r) == SubSeq(r.alkanes, 1, Len(r.alkanes) - 1)

\* the parcel is one transfer of the pool's own token
OneOwnTransfer(incoming) ==
    Len(incoming) = 1 /\ incoming[1].id = Myself

\* C15 as stated: a stake is accepted only when its incoming parcel is exactly
\* one transfer of exactly one unit of the pool's own token, and a stake
\* that is rejected writes nothing.
C15_ExactlyOneUnit ==
    [][response'.op = "stake"
          => IF response'.err = ""
             THEN /\ OneOwnTransfer(ForwardedParcel(response'))
                  /\ ForwardedParcel(response')[1].value = 1
             ELSE UNCHANGED store]_vars

\* C15, amended: a stake is accepted only when its incoming parcel is exactly
\* one transfer of at least one unit of the pool's own token (no transfer,
\* several transfers, another token and a quantity of zero are refused), and
\* a stake that is rejected writes nothing.
C15_AtLeastOneUnit ==
    [][response'.op = "stake"
          => IF response'.err = ""
             THEN /\ OneOwnTransfer(ForwardedParcel(response'))
                  /\ ForwardedParcel(response')[1].value >= 1
             ELSE UNCHANGED store]_vars

\* a stake that presented two units of the pool's own token has been accepted
C15_Witness ==
    /\ response.op = "stake" /\ response.err = ""
    /\ OneOwnTransfer(ForwardedParcel(response))
    /\ ForwardedParcel(response)[1].value = 2
    /\ orbital_count > 0

-----------------------------------------------------------------------------
(* C16 *)

\* C16: an unstake at a height atHeight of a position whose expiryHeight is
\* at or below atHeight records unstakeHeight = atHeight and leaves every
\* entry of the snapshot series and of the expire-delta series as it was.
C16_UnstakeAfterExpiry ==
    [][\A c \in Callers :
          LET i == GetValue(id2index, c)
          IN  (/\ i # 0
               /\ response'.op = "unstake" /\ response'.err = "" /\ response'.caller = c
               /\ get_expire_height(get_staking(i)) <= height)
                  => /\ get_staking(i)'.unstaking_height = height
                     /\ UNCHANGED <<weights, expires>>]_vars

\* a position has been unstaked at or after its expiry height
C16_Witness ==
    /\ response.op = "unstake" /\ response.err = ""
    /\ LET s == get_staking(GetValue(id2index, response.caller))
       IN  /\ s.unstaking_height = height
           /\ get_expire_height(s) <= height
           /\ weights # EmptyMap

-----------------------------------------------------------------------------
(* C17 *)

\* C17: a profit query, with the weight lookups it makes, leaves the whole
\* persistent state unchanged, for any index and any height, the heights
\* that have no snapshot included.
C17_QueriesWriteNothing ==
    [][response'.op = "get_profit" => UNCHANGED store]_vars

\* a profit query has answered for a height that has no snapshot
C17_Witness ==
    /\ response.op = "get_profit" /\ response.err = ""
    /\ Len(response.data) = 3 /\ response.data[1] > 0
    /\ ~Has(weights, height)

-----------------------------------------------------------------------------
(* C18 *)

\* C18: for a position that is the only one in the pool, calc_profit(index, q)
\* reports accrued = (miningEndHeight(q) - startHeight) * MINING_ONE_BLOCK_VOLUME
\* (nothing when the mining ends at or before the start): every block of
\* [startHeight, miningEndHeight) earns the whole emission, the end block nothing.
C18_SolePositionEarnsAll ==
    orbital_count = 1
        => \A q \in Heights :
               LET s == get_staking(1)
               IN  /\ calc_profit(1, q).err = ""
                   /\ calc_profit(1, q).total
                          = Max(get_mining_end_height(s, q) - s.staking_height, 0)
                              * MINING_ONE_BLOCK_VOLUME

\* the only position of the pool has been told that it earned three blocks
C18_Witness ==
    /\ orbital_count = 1
    /\ response.op = "get_profit" /\ response.err = ""
    /\ Len(response.data) = 3
    /\ response.data[1] = 3 * MINING_ONE_BLOCK_VOLUME
    /\ calc_profit(1, height + PROFIT_RELEASE_HEIGHT).total = response.data[1]

-----------------------------------------------------------------------------
(* C19 *)

\* C19: a query that loads a position of which no record is stored fails
\* with SerializationError; it never answers with a result computed from
\* the default field values, such as (0, 0, 0).
C19_AbsentRecordFails ==
    [][response'.op \in {"get_profit", "get_attributes"}
          => \A index \in QueryIndices :
                ~Has(stakings, index)
                    => /\ get_attributes(index) => response'.err = "SerializationError"
                       /\ \A q \in QueryHeights :
                              get_profit(index, q) => response'.err = "SerializationError"]_vars

-----------------------------------------------------------------------------
(* C20 *)

\* C20: a successful stake has made exactly one call to the position-token
\* template and returns exactly one position token, the one just minted; a
\* successful claim holds at most one transfer, of the reward token, and holds
\* it only when something was claimable.
C20_OneReceiptOnePayout ==
    [][/\ (response'.op = "stake" /\ response'.err = "")
              => /\ response'.calls = 1
                 /\ Len(response'.alkanes) = Len(ForwardedParcel(response')) + 1
                 /\ response'.alkanes[Len(response'.alkanes)]
                        = AlkaneTransfer(AlkaneId(2, sequence), 1)
                 /\ OneOwnTransfer(ForwardedParcel(response'))
       /\ \A c \in Callers :
              (response'.op = "claim" /\ response'.err = "" /\ response'.caller = c)
                  => /\ Len(response'.alkanes) <= 1
                     /\ \A k \in DOMAIN response'.alkanes : response'.alkanes[k].id = CoinId
                     /\ response'.alkanes # <<>>
                            <=> calc_profit(GetValue(id2index, c), height).released
                                   > get_staking(GetValue(id2index, c)).withdraw_coin_value]_vars

\* the stake that filled the pool has returned the position token it minted
C20_Witness ==
    /\ response.op = "stake" /\ response.err = ""
    /\ response.calls = 1
    /\ Len(response.alkanes) = 2
    /\ response.alkanes[2].id = AlkaneId(2, sequence - 1)
    /\ orbital_count = MaxPositions

-----------------------------------------------------------------------------
(* C21 *)

-----------------------------------------------------------------------------
(* C22 *)

\* C22: in every state reached through the stake operation, every stored
\* position has an amount of at least MIN_STAKE_VALUE and a start height
\* inside [MINING_FIRST_HEIGHT, MINING_LAST_HEIGHT].
C22_StoredPositionsValid ==
    \A i \in DOMAIN stakings :
        /\ stakings[i].staking_value >= MIN_STAKE_VALUE
        /\ stakings[i].staking_height >= MINING_FIRST_HEIGHT
        /\ stakings[i].staking_height <= MINING_LAST_HEIGHT

\* two positions are stored, after stakes below the minimum and outside the
\* window have been among the invocations
C22_Witness ==
    /\ orbital_count = MaxPositions
    /\ DOMAIN stakings = 1 .. MaxPositions
    /\ response.op = "stake" /\ response.err = "MiningNotStarted"

-----------------------------------------------------------------------------
(* C23 *)

\* C23: for any position created through add_staking_position and any pool
\* state, the accrued values of calc_profit and of the reference calc_profit_1
\* differ by at most 50% of calc_profit's accrued value, their vested values
\* by at most 50% of calc_profit's vested value, and both withdrawn components
\* equal the stored withdraw_coin_value.
C23_CalculatorsWithinTolerance ==
    \A i \in Indices : \A q \in Heights :
        LET a == calc_profit(i, q)
            b == calc_profit_1(i, q)
        IN  (a.err = "" /\ b.err = "")
                => /\ 2 * Abs(a.total - b.total) <= a.total
                   /\ 2 * Abs(a.released - b.released) <= a.released
                   /\ a.withdrawn = get_staking(i).withdraw_coin_value
                   /\ b.withdrawn = get_staking(i).withdraw_coin_value

-----------------------------------------------------------------------------
(* C24 *)

\* position s is scheduled to leave the pool at h: it expires at h and has
\* not been unstaked at a height below h
ExpiresAt(s, h) ==
    /\ get_expire_height(s) = h
    /\ s.unstaking_height > 0 => s.unstaking_height >= h

RECURSIVE ExpiringWeightUpTo(_, _)
ExpiringWeightUpTo(n, h) ==
    IF n = 0 THEN 0
    ELSE ExpiringWeightUpTo(n - 1, h)
           + (IF ExpiresAt(get_staking(n), h) THEN staking_weight_of(get_staking(n)) ELSE 0)

\* the heights that hold an expire delta or at which a stored position expires
ExpiryHeights ==
    Heights \cup DOMAIN expires \cup {get_expire_height(get_staking(i)) : i \in Indices}

\* C24: in every reachable state and for every height h, the expire delta at h
\* equals the sum of amount * multiplier over the positions whose expiry
\* height is h and that have not been unstaked at a height below h; in
\* particular it is never negative.
C24_ExpireDeltaIsSumOfExpiring ==
    \A h \in ExpiryHeights :
        /\ get_staking_expire(h) = ExpiringWeightUpTo(orbital_count, h)
        /\ get_staking_expire(h) >= 0

\* of two positions that expire at the same height, one has been unstaked
\* before that height and the other has not
C24_Witness ==
    /\ orbital_count = 2
    /\ get_expire_height(get_staking(1)) = get_expire_height(get_staking(2))
    /\ get_staking(1).unstaking_height > 0
    /\ get_staking(1).unstaking_height < get_expire_height(get_staking(1))
    /\ get_staking(2).unstaking_height = 0
    /\ get_staking_expire(get_expire_height(get_staking(2))) = staking_weight_of(get_staking(2))

-----------------------------------------------------------------------------
(* C25 *)

\* C25: a position contributes nothing to weightAt(h) at any h at or past its
\* expiry height, also when a snapshot is stored at exactly the expiry height
\* (a position of period 0, or an expiry that coincides with another
\* position's start or unstake height): at such an h the ledger holds the
\* weights of the positions still active at h and nothing of the expired one.
C25_ExpiredContributesNothing ==
    \A i \in Indices : \A h \in Heights :
        get_expire_height(get_staking(i)) <= h
            => get_staking_weight(h) = ActiveWeight(h)

-----------------------------------------------------------------------------
(* C26 *)

\* the least element of a non-empty set of heights
Least(S) == CHOOSE x \in S : \A y \in S : x <= y

\* C26: for every position and query height q, the end of mining is
\* min(expiryHeight, unstakeHeight if non-zero, q) and the end of release is
\* min(unstakeHeight, q) if unstakeHeight is non-zero, else q, where
\* expiryHeight = startHeight + period * (blocks per day).
C26_DerivedHeights ==
    \A i \in Indices : \A q \in Heights :
        LET s == get_staking(i)
            expiry == s.staking_height + s.period * BLOCKS_PER_DAY
            unstaked == IF s.unstaking_height # 0 THEN {s.unstaking_height} ELSE {}
        IN  /\ get_expire_height(s) = expiry
            /\ get_mining_end_height(s, q) = Least({expiry, q} \cup unstaked)
            /\ get_release_end_height(s, q) = Least({q} \cup unstaked)

\* one position was unstaked before its expiry, the other after its expiry
C26_Witness ==
    /\ orbital_count = 2
    /\ get_staking(1).unstaking_height > 0
    /\ get_staking(1).unstaking_height < get_expire_height(get_staking(1))
    /\ get_staking(2).unstaking_height > get_expire_height(get_staking(2))

-----------------------------------------------------------------------------
(* C27 *)

\* C27: in calc_profit the share of the block at height h counts towards the
\* vested amount in the proportion min(releaseEnd - h - 1, PROFIT_RELEASE_HEIGHT)
\* / PROFIT_RELEASE_HEIGHT: nothing of it is vested when releaseEnd = h + 1,
\* and the whole share once releaseEnd - h - 1 >= PROFIT_RELEASE_HEIGHT.
C27_VestedProportion ==
    \A i \in Indices : \A q \in Heights :
        LET s == get_staking(i)
            release_end == get_release_end_height(s, q)
        IN  \A h \in s.staking_height .. (get_mining_end_height(s, q) - 1) :
                (get_staking_weight(h) # 0 /\ release_end - h - 1 >= 0)
                    => LET block_profit ==
                               DecDiv(staking_weight_of(s) * MINING_ONE_BLOCK_VOLUME,
                                      get_staking_weight(h))
                           n == release_end - h - 1
                       IN  released_amount(block_profit, n) * PROFIT_RELEASE_HEIGHT
                               = block_profit * Min(n, PROFIT_RELEASE_HEIGHT)

-----------------------------------------------------------------------------
(* C28 *)

\* the fields of a position that are set when it is created
CreationFields(s) ==
    <<s.staking_value, s.period, s.staking_height, s.invite_index, s.alkanes_id>>

\* C28: an unstake changes, in the position store, only the unstaking_height
\* of the caller's position, and a claim only the withdraw_coin_value of the
\* caller's position; the amount, the period, the start height, the referee
\* index and the owner token of every position, and all fields of every
\* other position, are never changed after creation.
C28_OnlyOwnFieldChanges ==
    [][\A i \in DOMAIN stakings :
          /\ i \in DOMAIN stakings'
          /\ CreationFields(stakings'[i]) = CreationFields(stakings[i])
          /\ \A c \in Callers :
                (response'.caller = c /\ GetValue(id2index, c) # i)
                    => stakings'[i] = stakings[i]
          /\ response'.op = "unstake"
                => stakings'[i].withdraw_coin_value = stakings[i].withdraw_coin_value
          /\ response'.op = "claim"
                => stakings'[i].unstaking_height = stakings[i].unstaking_height
          /\ response'.op \notin {"unstake", "claim"}
                => stakings'[i] = stakings[i]]_vars

\* a claim has just paid the owner of one of two positions, and a position
\* has been unstaked
C28_Witness ==
    /\ orbital_count = 2
    /\ response.op = "claim" /\ response.err = "" /\ response.alkanes # <<>>
    /\ \E i \in Indices : get_staking(i).unstaking_height > 0
    /\ \E i \in Indices : get_staking(i).withdraw_coin_value > 0

-----------------------------------------------------------------------------
(* C29 *)

\* how often index occurs in an invite list
Occurrences(list, index) == Cardinality({j \in DOMAIN list : list[j] = index})

\* C29: a successful stake whose referee token resolves to a non-zero index r
\* appends the new index exactly once to the end of the invite list of r and
\* changes no other invite list; a stake whose referee resolves to 0 changes
\* no invite list.
C29_InviteListAppended ==
    [][(response'.op = "stake" /\ response'.err = "")
          => \A payload \in InvitePayloads : \A r, n \in 0 .. MaxInvited :
                (/\ stake(NominalParcel, TRUE, payload, "token")
                 /\ r = GetValue(id2index, payload.alkanes_id)
                 /\ n = orbital_count')
                    => /\ \A k \in (1 .. MaxInvited) \ {r} :
                            get_invited_indices(k)' = get_invited_indices(k)
                       /\ r # 0 => /\ get_invited_indices(r)'
                                        = get_invited_indices(r) \o <<n>>
                                   /\ Occurrences(get_invited_indices(r)', n) = 1
                       /\ r = 0 => invites' = invites]_vars

\* the third position has named the first as its referee, after the second
C29_Witness ==
    /\ response.op = "stake" /\ response.err = ""
    /\ orbital_count = 3
    /\ get_invited_indices(1) = <<2, 3>>

-----------------------------------------------------------------------------
(* C30 *)

RECURSIVE ExpiresMet(_, _)
\* the expire deltas of the first n heights that a lookup has visited and
\* found without a snapshot
ExpiresMet(visited, n) ==
    IF n = 0 THEN 0
    ELSE ExpiresMet(visited, n - 1)
           + (IF Has(weights, visited[n]) THEN 0 ELSE get_staking_expire(visited[n]))

\* C30: weightAt(h) terminates for every height h and every ledger state,
\* including a ledger with no snapshot at all: the backward walk visits each
\* height below h at most once, stops at the first snapshot or at the lower
\* bound of the walk, and returns 0 minus the expire deltas met when no
\* snapshot is found.
C30_WalkTerminates ==
    /\ [](walk.pc # "idle"
            => LET n == Len(walk.visited)
               IN  /\ \A j \in 1 .. n : walk.visited[j] = walk.height - j
                   /\ \A j \in 1 .. n : walk.visited[j] >= walk.lower_bound
                   /\ \A j \in 1 .. (n - 1) : ~Has(weights, walk.visited[j])
                   /\ (walk.pc = "while" /\ n > 0) => ~Has(weights, walk.visited[n])
                   /\ (walk.pc = "return" /\ ~Has(weights, walk.height))
                         => IF n > 0 /\ Has(weights, walk.visited[n])
                            THEN walk.weight = weights[walk.visited[n]]
                                    - get_staking_expire(walk.height)
                                    - ExpiresMet(walk.visited, n)
                            ELSE /\ walk.current_height <= walk.lower_bound
                                 /\ walk.weight = 0 - get_staking_expire(walk.height)
                                                    - ExpiresMet(walk.visited, n)
                   /\ (walk.pc = "return" /\ walk.lower_bound = MINING_FIRST_HEIGHT)
                         => walk.weight = get_staking_weight(walk.height))
    /\ (walk.pc = "while") ~> (walk.pc = "return")

\* a lookup has walked down a ledger without any snapshot to its lower bound
C30_Witness ==
    /\ walk.pc = "return"
    /\ weights = EmptyMap
    /\ Len(walk.visited) = MaxTicks + BLOCKS_PER_DAY
    /\ walk.current_height = walk.lower_bound
    /\ walk.weight = 0

-----------------------------------------------------------------------------
(* C31 *)

\* C31: in the reference calculator, a position whose active range
\* [t_s, t_e) does not overlap the queried range [start, end) contributes zero
\* weight to every block and does not make the calculation fail or wrap the
\* unsigned subtraction min(t_e, end) - max(t_s, start).
C31_NoOverlapContributesZero ==
    \A i \in Indices : \A q \in Heights :
        LET curr_staking == get_staking(i)
            start == curr_staking.staking_height
            end == get_mining_end_height(curr_staking, q)
        IN  start < end
              => \A n \in Indices :
                    LET t_s == get_staking(n).staking_height
                        t_e == get_mining_end_height(get_staking(n), q)
                    IN  (t_s >= end \/ t_e <= start)
                          => /\ ~RefUnderflows(get_staking(n), start, end, q)
                             /\ calc_profit_1(i, q).err # "SubtractOverflow"
                             /\ \A h \in start .. (end - 1) :
                                   RefBlockWeight(n, h, start, end, q)
                                      = RefBlockWeight(n - 1, h, start, end, q)

-----------------------------------------------------------------------------
(* C32 *)

\* C32: in the day-granular revision, after an early unstake of a position
\* with weight w at height U, get_staking_weight(d) no longer includes w from
\* the day number d = height_to_no(U) on: the adjusted snapshot is stored
\* under the day-number key from which the weight was read.
C32_DayUnstakeRemovesWeight ==
    [][(response'.op = "unstake" /\ response'.err = "")
          => \A c \in Callers : \A d \in 0 .. MaxTicks :
                LET s == get_staking(GetValue(id2index, c))
                IN  (/\ response'.caller = c
                     /\ d = height_to_no(height)
                     /\ height < get_expire_height(s))
                        => /\ d \in DOMAIN weights'
                           /\ day_get_staking_weight(d)'
                                 = day_get_staking_weight(d)
                                     - s.staking_value * period_to_w(s.period)]_vars

-----------------------------------------------------------------------------
(* C33 *)

\* C33: in every state reachable by stake and unstake operations, weightAt(h)
\* is non-negative for every height h, and every stored snapshot value is
\* non-negative.
C33_WeightNeverNegative ==
    /\ \A h \in Heights : get_staking_weight(h) >= 0
    /\ \A h \in DOMAIN weights : weights[h] >= 0

-----------------------------------------------------------------------------
(* C34 *)

RECURSIVE BlockShares(_, _)
\* the block profits that calc_profit credits at height h to the positions
\* 1 .. n that are active at h
BlockShares(n, h) ==
    IF n = 0 THEN 0
    ELSE BlockShares(n - 1, h)
           + (IF Active(get_staking(n), h)
              THEN DecDiv(staking_weight_of(get_staking(n)) * MINING_ONE_BLOCK_VOLUME,
                          get_staking_weight(h))
              ELSE 0)

\* C34: for every height h at which at least one position is active, the
\* block shares weight * MINING_ONE_BLOCK_VOLUME / weightAt(h), summed over the
\* positions active at h, equal exactly MINING_ONE_BLOCK_VOLUME, so that the
\* rewards credited for a block never exceed the emission of the block.
C34_SharesSumToEmission ==
    \A h \in Heights :
        (\E i \in Indices : Active(get_staking(i), h))
            => /\ get_staking_weight(h) # 0
               /\ BlockShares(orbital_count, h) = MINING_ONE_BLOCK_VOLUME * DEC_UNIT

-----------------------------------------------------------------------------
(* C35 *)

\* C35: in every reachable state, for every position, the sum of the reward
\* quantities transferred by all claims of that position equals its stored
\* withdraw_coin_value.
C35_TransferredIsWithdrawn ==
    \A i \in Indices : GetValue(transferred, i) = get_staking(i).withdraw_coin_value

\* a claim has just paid a position that earlier claims had paid already
C35_Witness ==
    /\ response.op = "claim" /\ response.err = "" /\ response.alkanes # <<>>
    /\ \E i \in Indices :
          /\ get_staking(i).alkanes_id = response.caller
          /\ GetValue(transferred, i) > response.alkanes[1].value

-----------------------------------------------------------------------------
(* C36 *)

\* C36: for every stored position and every query height, calc_profit
\* returns vested <= accrued.
C36_VestedAtMostAccrued ==
    \A i \in Indices : \A q \in Heights :
        LET profit == calc_profit(i, q)
        IN  profit.err = "" => profit.released <= profit.total

-----------------------------------------------------------------------------
(* C37 *)

\* C37: for a position that is never unstaked, with the ledger unchanged,
\* calc_profit(index, q) returns vested = accrued for every
\* q >= expiryHeight + PROFIT_RELEASE_HEIGHT: every accrued reward becomes
\* fully vested in the end.
C37_FullyVestedInTheEnd ==
    \A i \in Indices : \A q \in Heights :
        LET s == get_staking(i)
            profit == calc_profit(i, q)
        IN  (/\ s.unstaking_height = 0
             /\ q >= get_expire_height(s) + PROFIT_RELEASE_HEIGHT
             /\ profit.err = "")
                => profit.released = profit.total

\* a position that was never unstaked is looked at a whole release window
\* after its expiry, and has earned something
C37_Witness ==
    \E i \in Indices : \E q \in Heights :
        /\ get_staking(i).unstaking_height = 0
        /\ q >= get_expire_height(get_staking(i)) + PROFIT_RELEASE_HEIGHT
        /\ calc_profit(i, q).err = ""
        /\ calc_profit(i, q).total > 0
        /\ height >= get_expire_height(get_staking(i))

-----------------------------------------------------------------------------
(* C38 *)

\* C38: once a position has been unstaked at height U, with the ledger
\* unchanged, calc_profit(index, q) returns the same accrued and the same
\* vested for every q >= U: what was not vested at U never becomes claimable.
C38_FrozenAfterUnstake ==
    \A i \in Indices : \A q \in Heights :
        LET s == get_staking(i)
            at_unstake == calc_profit(i, s.unstaking_height)
            later == calc_profit(i, q)
        IN  (s.unstaking_height > 0 /\ q >= s.unstaking_height)
                => /\ later.err = at_unstake.err
                   /\ later.total = at_unstake.total
                   /\ later.released = at_unstake.released

\* a position was unstaked with a part of its reward not vested, and blocks
\* have passed since
C38_Witness ==
    \E i \in Indices :
        LET s == get_staking(i)
            at_unstake == calc_profit(i, s.unstaking_height)
        IN  /\ s.unstaking_height > 0
            /\ height > s.unstaking_height
            /\ at_unstake.err = ""
            /\ at_unstake.released < at_unstake.total

-----------------------------------------------------------------------------
(* C39 *)

\* C39: in every call of calc_profit, for any position and any query height
\* q, miningEndHeight(q) <= releaseEndHeight(q) <= q, so that for every
\* visited height h in [startHeight, miningEndHeight) the unsigned
\* subtraction releaseEnd - h - 1 does not underflow.
C39_ReleaseEndCoversMiningEnd ==
    \A i \in QueryIndices : \A q \in Heights :
        LET s == get_staking(i)
        IN  /\ get_mining_end_height(s, q) <= get_release_end_height(s, q)
            /\ get_release_end_height(s, q) <= q
            /\ \A h \in s.staking_height .. (get_mining_end_height(s, q) - 1) :
                  get_release_end_height(s, q) - h - 1 >= 0
            /\ calc_profit(i, q).err # "SubtractOverflow"

\* a position that expired and was unstaked later is looked at for a height
\* past its unstake: the three heights differ, and calc_profit has visited
\* its blocks
C39_Witness ==
    \E i \in Indices : \E q \in Heights :
        LET s == get_staking(i)
        IN  /\ s.unstaking_height > 0
            /\ get_mining_end_height(s, q) < get_release_end_height(s, q)
            /\ get_release_end_height(s, q) < q
            /\ s.staking_height < get_mining_end_height(s, q)
            /\ calc_profit(i, q).err = ""

=============================================================================
